---- MODULE Spec2Model ----
(***************************************************************************)
(* Model of marshall.py: the query of the Marshall et al. (2006) 3D        *)
(* extinction map.  conCoords normalises a sky position, q_marshall scans  *)
(* the data file for the row at that position, split_dat decodes the row,  *)
(* find_asymptotic_red looks for the first flat step of the profile,       *)
(* get_ext reports it and main is the command-line entry.                  *)
(*                                                                         *)
(* Numbers.  Angles are integers in units of 1/(GridPerDeg*Res) degree, so *)
(* that the 0.25-degree grid, the points in between and the exact half     *)
(* steps are all exact.  Radii are integers in kpc.  Extinctions are       *)
(* integers in units of 1/PerMag magnitude.  An uncertain value (ufloat)   *)
(* is [isNone, n, s]: n the nominal value, s = 0 when the standard         *)
(* deviation is exactly zero and 1 otherwise.                              *)
(***************************************************************************)
EXTENDS Integers, Sequences, FiniteSets, TLC

VARIABLES
    pc,        \* position of the running call
    rounding,  \* tie rule of the interpreter's round(): "half_even" | "half_away"
    file,      \* rows of marshall.dat; row 1 is the header
    argLon,    \* args.lon of main: [set, v]
    argLat,    \* args.lat of main: [set, v]
    invoked,   \* get_ext has been called
    lon,       \* lon parameter of get_ext / conCoords
    lat,       \* lat parameter of get_ext / conCoords
    nlon,      \* lon returned by conCoords
    nlat,      \* lat returned by conCoords
    fopen,     \* the file object f is open
    opens,     \* number of open() calls
    idx,       \* number of rows the csv reader has handed out
    bound,     \* the locals ext, rad of q_marshall are assigned
    data,      \* the argument of split_dat (row[3:])
    ext,       \* list of extinctions (ufloats)
    rad,       \* list of radii (ufloats)
    res,       \* [red, dist]: what find_asymptotic_red returned
    out,       \* lines printed so far (tags)
    err,       \* exception that ended the call, "none" when there is none
    errLine    \* source line that raised it, 0 when there is none

vars == <<pc, rounding, file, argLon, argLat, invoked, lon, lat, nlon, nlat,
          fopen, opens, idx, bound, data, ext, rad, res, out, err, errLine>>

----------------------------------------------------------------------------
(* Bounds of the model *)

\* sub-steps per 0.25-degree grid step in the enumerated angles
Res == 4
\* angles are enumerated within Near units of each edge of the window
Near == 2
\* number of 4-field groups in an enumerated row
MaxGroups == 2
\* number of fields after the last complete group in an enumerated row
MaxTrail == 2
\* number of points of an enumerated profile
MaxLen == 3
\* radii of enumerated profiles, in kpc; their native extinctions are
\* ConvNum * j for j in 0..MaxRad + 1
MaxRad == 1
\* data rows of an enumerated file
MaxRows == 2

----------------------------------------------------------------------------
(* Program constants *)

\* round(lon*4)/4
GridPerDeg == 4
\* lon > 180.0
HalfTurn == 180
\* lon - 360, 360 + lon
FullTurn == 360
\* abs(lon) <= 100
MaxAbsLon == 100
\* abs(lat) <= 10
MaxAbsLat == 10
\* range(0, len(data) - 1, 4)
GroupLen == 4
\* x / 0.114 = x * 1000 / 114
ConvNum == 114
ConvDen == 1000
\* slopes[i] <= 0.01 = 1 / 100
ThreshNum == 1
ThreshDen == 100

\* angle units per degree
Deg == GridPerDeg * Res
\* extinction units per magnitude
PerMag == ThreshDen * ConvDen

Abs(x) == IF x < 0 THEN -x ELSE x

----------------------------------------------------------------------------
(* Python values *)

None == [isNone |-> TRUE, n |-> 0, s |-> 0]
UF(n, s) == [isNone |-> FALSE, n |-> n, s |-> s]
NoArg == [set |-> FALSE, v |-> 0]
Arg(v) == [set |-> TRUE, v |-> v]

\* bool(x) of a float option value: None and 0.0 are false
TruthyArg(a) == a.set /\ a.v # 0

\* bool(x) of None or of a ufloat: a ufloat is false exactly when it equals 0,
\* that is when its nominal value and its standard deviation are both 0
Truthy(x) == ~x.isNone /\ ~(x.n = 0 /\ x.s = 0)

----------------------------------------------------------------------------
(* conCoords *)

\* lon = (lon - 360) if lon > 180.0 else lon
Signed(l) == IF l > HalfTurn * Deg THEN l - FullTurn * Deg ELSE l

\* a variant of InRange: the longitude checked against the half turn
InRangeLoose(l, b) == Abs(l) <= HalfTurn * Deg /\ Abs(b) <= MaxAbsLat * Deg

\* assert (abs(lon) <= 100) and (abs(lat) <= 10)
InRange(l, b) == Abs(l) <= MaxAbsLon * Deg /\ Abs(b) <= MaxAbsLat * Deg

\* round(n / d) for d > 0: to the nearest integer, a tie to the even neighbour
\* (Python 3) or away from zero (Python 2)
Round(n, d, mode) ==
    LET fl == n \div d
        r  == n % d
    IN  IF 2 * r < d THEN fl
        ELSE IF 2 * r > d THEN fl + 1
        ELSE IF mode = "half_even" THEN (IF fl % 2 = 0 THEN fl ELSE fl + 1)
        ELSE (IF n >= 0 THEN fl + 1 ELSE fl)

\* round(x*4)/4 if (x % 0.25 != 0) else x
Quantize(x, mode) == IF x % Res # 0 THEN Round(x, Res, mode) * Res ELSE x

\* a variant of Stored: lon <= 0
StoredIncl(l) == IF l <= 0 THEN FullTurn * Deg + l ELSE l

\* lon = 360 + lon if (lon < 0) else lon
Stored(l) == IF l < 0 THEN FullTurn * Deg + l ELSE l

\* conCoords(lon, lat): [raised, lon, lat]
conCoords(l, b, mode) ==
    LET s == Signed(l)
    IN  IF ~InRange(s, b)
        THEN [raised |-> TRUE, lon |-> 0, lat |-> 0]
        ELSE [raised |-> FALSE,
              lon |-> Stored(Quantize(s, mode)),
              lat |-> Quantize(b, mode)]

Modes == {"half_even", "half_away"}

----------------------------------------------------------------------------
(* Enumerated inputs of conCoords: the angles around each edge of the       *)
(* window and around the grid steps next to it.                             *)

Offsets == {g * Res + d : g \in -1..1, d \in -Near..Near}
LonEdges == {-MaxAbsLon, 0, MaxAbsLon, HalfTurn, FullTurn - MaxAbsLon,
             FullTurn, FullTurn + MaxAbsLon}
LatEdges == {-MaxAbsLat, 0, MaxAbsLat}
LonInputs == {c * Deg + o : c \in LonEdges, o \in Offsets}
LatInputs == {c * Deg + o : c \in LatEdges, o \in Offsets}

\* the parts of the state a call does not use
Idle ==
    /\ file = <<>> /\ argLon = NoArg /\ argLat = NoArg /\ invoked = FALSE
    /\ fopen = FALSE /\ opens = 0 /\ idx = 0 /\ bound = FALSE
    /\ out = <<>> /\ err = "none" /\ errLine = 0

InitCoords ==
    /\ pc = "conCoords"
    /\ rounding \in Modes
    /\ lon \in LonInputs /\ lat \in LatInputs
    /\ nlon = 0 /\ nlat = 0
    /\ data = <<>> /\ ext = <<>> /\ rad = <<>>
    /\ res = [red |-> None, dist |-> None]
    /\ Idle

\* a direct call of conCoords(lon, lat)
CallConCoords ==
    /\ pc = "conCoords"
    /\ LET c == conCoords(lon, lat, rounding)
       IN  IF c.raised
           THEN /\ pc' = "raised" /\ err' = "AssertionError" /\ errLine' = 72
                /\ UNCHANGED <<nlon, nlat>>
           ELSE /\ pc' = "returned" /\ nlon' = c.lon /\ nlat' = c.lat
                /\ UNCHANGED <<err, errLine>>
    /\ UNCHANGED <<rounding, file, argLon, argLat, invoked, lon, lat, fopen,
                   opens, idx, bound, data, ext, rad, res, out>>

NextCoords == CallConCoords

SpecCoords == InitCoords /\ [][NextCoords]_vars

----------------------------------------------------------------------------
(* split_dat *)

\* a csv field: the text of a number (val), "" (blank) or white space only
Num(v) == [txt |-> "num", val |-> v]
Blank == [txt |-> "blank", val |-> 0]
Space == [txt |-> "space", val |-> 0]
Text == [txt |-> "text", val |-> 0]

IsNum(f) == f.txt = "num"

\* vec[0].strip() == ''
IsBlank(f) == f.txt \in {"blank", "space"}

\* ufloat(v, e) of two fields raises ValueError when a field is not a number
\* (the enumerated rows hold no number whose error field is not one)
UfloatRaises(v, e) == ~IsNum(v) \/ ~IsNum(e)

\* ufloat(v, e): the standard deviation is zero exactly when e is 0
Ufloat(v, e) == UF(v.val, IF e.val = 0 THEN 0 ELSE 1)

\* a variant of LoopEnd: len(data) - 4
LoopEndShort(n) == n - GroupLen

\* range(0, len(data) - 1, 4) stops before len(data) - 1
LoopEnd(n) == n - 1

\* the loop of split_dat from offset i (0-based) on: [raised, line, ext, rad]
RECURSIVE SplitFrom(_, _, _, _)
SplitFrom(d, i, e, r) ==
    IF i >= LoopEnd(Len(d))
    THEN [raised |-> "none", line |-> 0, ext |-> e, rad |-> r]
    ELSE IF i + GroupLen > Len(d)
    THEN [raised |-> "IndexError", line |-> 107, ext |-> <<>>, rad |-> <<>>]
    ELSE IF IsBlank(d[i + 1])
    THEN SplitFrom(d, i + GroupLen, e, r)
    ELSE IF UfloatRaises(d[i + 1], d[i + 2])
    THEN [raised |-> "ValueError", line |-> 110, ext |-> <<>>, rad |-> <<>>]
    ELSE IF UfloatRaises(d[i + 3], d[i + 4])
    THEN [raised |-> "ValueError", line |-> 111, ext |-> <<>>, rad |-> <<>>]
    ELSE SplitFrom(d, i + GroupLen,
                   Append(e, Ufloat(d[i + 3], d[i + 4])),
                   Append(r, Ufloat(d[i + 1], d[i + 2])))

\* split_dat(data): ext, rad = [], [] and the loop
split_dat(d) == SplitFrom(d, 0, <<>>, <<>>)

(* Enumerated rows: groups without a measurement (blank or white-space     *)
(* radius), groups with one, and groups whose extinction is missing.       *)
BlankGroups == {<<b, Blank, x, Blank>> : b \in {Blank, Space}, x \in {Blank, Num(ConvNum)}}
NumGroups ==
    {<<Num(r), Num(u), e, Num(u)>> :
        r \in 0..MaxRad, u \in 0..1,
        e \in {Blank} \cup {Num(ConvNum * j) : j \in 0..MaxRad + 1}}
Groups == BlankGroups \cup NumGroups

RECURSIVE Flatten(_)
Flatten(gs) == IF gs = <<>> THEN <<>> ELSE Head(gs) \o Flatten(Tail(gs))

GroupSeqs == UNION {[1..k -> Groups] : k \in 0..MaxGroups}
RowDatas == {Flatten(gs) \o [i \in 1..t |-> Num(0)] : gs \in GroupSeqs, t \in 0..MaxTrail}

InitSplit ==
    /\ pc = "split_dat"
    /\ rounding = "half_even"
    /\ lon = 0 /\ lat = 0 /\ nlon = 0 /\ nlat = 0
    /\ data \in RowDatas
    /\ ext = <<>> /\ rad = <<>>
    /\ res = [red |-> None, dist |-> None]
    /\ Idle

\* a direct call ext, rad = split_dat(data)
CallSplitDat ==
    /\ pc = "split_dat"
    /\ LET r == split_dat(data)
       IN  IF r.raised # "none"
           THEN /\ pc' = "raised" /\ err' = r.raised /\ errLine' = r.line
                /\ UNCHANGED <<ext, rad>>
           ELSE /\ pc' = "returned" /\ ext' = r.ext /\ rad' = r.rad
                /\ UNCHANGED <<err, errLine>>
    /\ UNCHANGED <<rounding, file, argLon, argLat, invoked, lon, lat, nlon,
                   nlat, fopen, opens, idx, bound, data, res, out>>

NextSplit == CallSplitDat

SpecSplit == InitSplit /\ [][NextSplit]_vars

----------------------------------------------------------------------------
(* find_asymptotic_red *)

\* x / 0.114
ToVisual(x) == UF((x.n * ConvDen) \div ConvNum, x.s)

\* a - b of two independent uncertain values
Sub(a, b) == UF(a.n - b.n, IF a.s = 0 /\ b.s = 0 THEN 0 ELSE 1)

\* (e2 - e1) / (r2 - r1), kept as a fraction; its standard deviation is zero
\* when no term with a non-zero derivative is uncertain
Slope(e1, e2, r1, r2) ==
    LET dE == Sub(e2, e1)
        dR == Sub(r2, r1)
    IN  [num |-> dE.n, den |-> dR.n,
         s |-> IF dE.s # 0 \/ (dE.n # 0 /\ dR.s # 0) THEN 1 ELSE 0]

\* the nominal value of the slope (magnitudes per kpc) against 0.01
NominalLess(sl) ==
    IF sl.den > 0
    THEN sl.num * ThreshDen < ThreshNum * PerMag * sl.den
    ELSE sl.num * ThreshDen > ThreshNum * PerMag * sl.den
NominalEq(sl) == sl.num * ThreshDen = ThreshNum * PerMag * sl.den

\* a variant of LeqThreshold: the nominal value against 0.02
LeqLoose(sl) ==
    IF sl.den > 0
    THEN sl.num * ThreshDen <= 2 * ThreshNum * PerMag * sl.den
    ELSE sl.num * ThreshDen >= 2 * ThreshNum * PerMag * sl.den

\* slopes[i] <= 0.01 of an uncertain value: its nominal value is smaller, or
\* it equals 0.01, which an uncertain value does only when its nominal value
\* is 0.01 and its standard deviation is zero
LeqThreshold(sl) == NominalLess(sl) \/ (NominalEq(sl) /\ sl.s = 0)

\* for i in range(len(slopes)): if slopes[i] <= 0.01; 0 when the loop ends
RECURSIVE FirstFlat(_, _)
FirstFlat(slopes, i) ==
    IF i > Len(slopes) THEN 0
    ELSE IF LeqThreshold(slopes[i]) THEN i
    ELSE FirstFlat(slopes, i + 1)

\* find_asymptotic_red(ext, rad): [raised, red, dist]
find_asymptotic_red(e, r) ==
    LET v == [i \in 1..Len(e) |-> ToVisual(e[i])]
        n == IF Len(e) = 0 THEN 0 ELSE Len(e) - 1
    IN  IF \E i \in 1..n : r[i + 1].n = r[i].n
        THEN [raised |-> "ZeroDivisionError", red |-> None, dist |-> None]
        ELSE LET slopes == [i \in 1..n |-> Slope(v[i], v[i + 1], r[i], r[i + 1])]
                 k == FirstFlat(slopes, 1)
             IN  IF k = 0
                 THEN [raised |-> "none", red |-> None, dist |-> None]
                 ELSE [raised |-> "none", red |-> v[k], dist |-> r[k]]

(* Enumerated profiles: every sequence of up to MaxLen points, the radii   *)
(* and the extinctions all exact or all uncertain.                         *)
Points == {<<r, j>> : r \in 0..MaxRad, j \in 0..MaxRad + 1}
PointSeqs == UNION {[1..k -> Points] : k \in 0..MaxLen}

InitAsym ==
    /\ pc = "find_asymptotic_red"
    /\ rounding = "half_even"
    /\ lon = 0 /\ lat = 0 /\ nlon = 0 /\ nlat = 0
    /\ data = <<>>
    /\ \E ps \in PointSeqs, sr \in 0..1, se \in 0..1 :
          /\ rad = [i \in 1..Len(ps) |-> UF(ps[i][1], sr)]
          /\ ext = [i \in 1..Len(ps) |-> UF(ConvNum * ps[i][2], se)]
    /\ res = [red |-> None, dist |-> None]
    /\ Idle

\* a direct call find_asymptotic_red(ext, rad)
CallFindAsymptoticRed ==
    /\ pc = "find_asymptotic_red"
    /\ LET r == find_asymptotic_red(ext, rad)
       IN  IF r.raised # "none"
           THEN /\ pc' = "raised" /\ err' = r.raised /\ errLine' = 143
                /\ UNCHANGED res
           ELSE /\ pc' = "returned" /\ res' = [red |-> r.red, dist |-> r.dist]
                /\ UNCHANGED <<err, errLine>>
    /\ UNCHANGED <<rounding, file, argLon, argLat, invoked, lon, lat, nlon,
                   nlat, fopen, opens, idx, bound, data, ext, rad, out>>

NextAsym == CallFindAsymptoticRed

SpecAsym == InitAsym /\ [][NextAsym]_vars

----------------------------------------------------------------------------
(* The data file *)

\* a csv row: longitude, latitude, an unused field, then row[3:]
Row(l, b, d) == [lon |-> l, lat |-> b, data |-> d]

G(r, sr, e, se) == <<Num(r), Num(sr), Num(e), Num(se)>>

\* the title row of the file
TitleRow == Row(Text, Text, <<>>)

\* the grid nodes of the enumerated rows: l = 0 and l = 359.75, b = 0
LonA == 0 * Deg
LonB == FullTurn * Deg - Res

\* row[3:] of the enumerated rows
DEmpty == <<>>
DZero == G(1, 0, 0, 0) \o G(2, 0, 0, 0)
DFlat == G(1, 1, ConvNum, 1) \o G(2, 1, ConvNum, 1)
DSteep == G(1, 1, 0, 1) \o G(2, 1, 2 * ConvNum, 1)
DSparse == <<Blank, Blank, Blank, Blank>> \o G(1, 1, ConvNum, 1)
DBad == <<Num(1), Num(1), Blank, Num(1)>>
DDup == G(1, 1, 0, 1) \o G(1, 1, ConvNum, 1)

DataRows ==
    {Row(Num(LonA), Num(0), d) :
        d \in {DEmpty, DZero, DFlat, DSteep, DSparse, DBad, DDup}}
    \cup {Row(Num(LonB), Num(0), DFlat), TitleRow}
HeaderRows == {TitleRow, Row(Num(LonA), Num(0), DFlat)}

\* an empty file, or a first row and up to MaxRows rows after it
Files ==
    {<<>>} \cup
    {<<h>> \o rows : h \in HeaderRows,
                     rows \in UNION {[1..k -> DataRows] : k \in 0..MaxRows}}

\* the queries: on the grid, next to it, half way between two nodes, a full
\* turn, the edges of the window and the first angles outside it
QueryLons == {0, 1, -(Res \div 2), -Res, FullTurn * Deg,
              MaxAbsLon * Deg, MaxAbsLon * Deg + 1, HalfTurn * Deg,
              (FullTurn - MaxAbsLon) * Deg - 1, (FullTurn - MaxAbsLon) * Deg}
QueryLats == {0, 1, MaxAbsLat * Deg, MaxAbsLat * Deg + 1, -(MaxAbsLat * Deg) - 1}

----------------------------------------------------------------------------
(* main, get_ext, q_marshall, plot_ext *)

\* (lon == pos[0]) & (lat == pos[1])
Match(row, l, b) == row.lon.val = l /\ row.lat.val = b

\* a variant of WithExit: f is closed by f.close() alone
LeakOnRaise(isOpen, exc) == IF exc THEN isOpen ELSE FALSE

\* leaving the with block closes f, by a return or by an exception
WithExit(isOpen, exc) == FALSE

Init ==
    /\ rounding \in Modes
    /\ file \in Files
    /\ \/ /\ pc = "main"
          /\ argLon \in {NoArg} \cup {Arg(v) : v \in QueryLons}
          /\ argLat \in {NoArg} \cup {Arg(v) : v \in QueryLats}
          /\ lon = 0 /\ lat = 0 /\ invoked = FALSE
       \/ /\ pc = "get_ext"
          /\ argLon = NoArg /\ argLat = NoArg
          /\ lon \in QueryLons /\ lat \in QueryLats /\ invoked = TRUE
    /\ nlon = 0 /\ nlat = 0
    /\ fopen = FALSE /\ opens = 0 /\ idx = 0 /\ bound = FALSE
    /\ data = <<>> /\ ext = <<>> /\ rad = <<>>
    /\ res = [red |-> None, dist |-> None]
    /\ out = <<>> /\ err = "none" /\ errLine = 0

\* main: parse the flags, then quit or call get_ext
Main ==
    /\ pc = "main"
    /\ IF ~TruthyArg(argLon) \/ ~TruthyArg(argLat)
       THEN /\ out' = Append(out, "not_defined")
            /\ pc' = "quit"
            /\ UNCHANGED <<lon, lat, invoked>>
       ELSE /\ lon' = argLon.v /\ lat' = argLat.v
            /\ invoked' = TRUE
            /\ pc' = "get_ext"
            /\ out' = out
    /\ UNCHANGED <<rounding, file, argLon, argLat, nlon, nlat, fopen, opens,
                   idx, bound, data, ext, rad, res, err, errLine>>

\* get_ext calls q_marshall, which calls conCoords
Normalize ==
    /\ pc = "get_ext"
    /\ LET c == conCoords(lon, lat, rounding)
       IN  IF c.raised
           THEN /\ pc' = "raised" /\ err' = "AssertionError" /\ errLine' = 72
                /\ UNCHANGED <<nlon, nlat>>
           ELSE /\ pc' = "open" /\ nlon' = c.lon /\ nlat' = c.lat
                /\ UNCHANGED <<err, errLine>>
    /\ UNCHANGED <<rounding, file, argLon, argLat, invoked, lon, lat, fopen,
                   opens, idx, bound, data, ext, rad, res, out>>

\* with open(__FILENAME__, 'r') as f
Open ==
    /\ pc = "open"
    /\ fopen' = TRUE /\ opens' = opens + 1
    /\ pc' = "header"
    /\ UNCHANGED <<rounding, file, argLon, argLat, invoked, lon, lat, nlon,
                   nlat, idx, bound, data, ext, rad, res, out, err, errLine>>

\* next(reader)
Header ==
    /\ pc = "header"
    /\ IF Len(file) = 0
       THEN /\ pc' = "raised" /\ err' = "StopIteration" /\ errLine' = 40
            /\ fopen' = WithExit(fopen, TRUE)
            /\ idx' = idx
       ELSE /\ pc' = "scan" /\ idx' = 1
            /\ UNCHANGED <<fopen, err, errLine>>
    /\ UNCHANGED <<rounding, file, argLon, argLat, invoked, lon, lat, nlon,
                   nlat, opens, bound, data, ext, rad, res, out>>

\* one turn of for row in reader, or the end of the loop and of the with block
Scan ==
    /\ pc = "scan"
    /\ IF idx >= Len(file)
       THEN /\ pc' = "f_close"
            /\ fopen' = WithExit(fopen, FALSE)
            /\ UNCHANGED <<idx, bound, data, ext, rad, err, errLine>>
       ELSE LET row == file[idx + 1]
                r == split_dat(row.data)
            IN  /\ idx' = idx + 1
                /\ IF ~IsNum(row.lon) \/ ~IsNum(row.lat)
                   THEN /\ pc' = "raised" /\ err' = "ValueError" /\ errLine' = 42
                        /\ fopen' = WithExit(fopen, TRUE)
                        /\ UNCHANGED <<bound, data, ext, rad>>
                   ELSE IF ~Match(row, nlon, nlat)
                   THEN /\ pc' = "scan"
                        /\ UNCHANGED <<fopen, bound, data, ext, rad, err, errLine>>
                   ELSE IF r.raised # "none"
                   THEN /\ pc' = "raised" /\ err' = r.raised /\ errLine' = r.line
                        /\ fopen' = WithExit(fopen, TRUE)
                        /\ data' = row.data
                        /\ UNCHANGED <<bound, ext, rad>>
                   ELSE /\ pc' = "scan"
                        /\ data' = row.data
                        /\ ext' = r.ext /\ rad' = r.rad
                        /\ bound' = TRUE
                        /\ UNCHANGED <<fopen, err, errLine>>
    /\ UNCHANGED <<rounding, file, argLon, argLat, invoked, lon, lat, nlon,
                   nlat, opens, res, out>>

\* f.close() after the with block
FClose ==
    /\ pc = "f_close"
    /\ fopen' = FALSE
    /\ pc' = "return"
    /\ UNCHANGED <<rounding, file, argLon, argLat, invoked, lon, lat, nlon,
                   nlat, opens, idx, bound, data, ext, rad, res, out, err,
                   errLine>>

\* return ext, rad: reading a local no row assigned raises UnboundLocalError
Return ==
    /\ pc = "return"
    /\ IF ~bound
       THEN /\ pc' = "raised" /\ err' = "UnboundLocalError" /\ errLine' = 48
       ELSE /\ pc' = "find" /\ UNCHANGED <<err, errLine>>
    /\ UNCHANGED <<rounding, file, argLon, argLat, invoked, lon, lat, nlon,
                   nlat, fopen, opens, idx, bound, data, ext, rad, res, out>>

\* asymp_red, asymp_dist = find_asymptotic_red(ext, rad)
Find ==
    /\ pc = "find"
    /\ LET r == find_asymptotic_red(ext, rad)
       IN  IF r.raised # "none"
           THEN /\ pc' = "raised" /\ err' = r.raised /\ errLine' = 143
                /\ UNCHANGED res
           ELSE /\ pc' = "report" /\ res' = [red |-> r.red, dist |-> r.dist]
                /\ UNCHANGED <<err, errLine>>
    /\ UNCHANGED <<rounding, file, argLon, argLat, invoked, lon, lat, nlon,
                   nlat, fopen, opens, idx, bound, data, ext, rad, out>>

\* if (not asymp_red) or (not asymp_dist)
ReportsNone(r) == ~Truthy(r.red) \/ ~Truthy(r.dist)

\* the prints of get_ext.  The format of the z-height line, "{::0F}", is
\* rejected by the formatting of a float; whether the formatting of an
\* uncertain value takes it depends on the library, so both outcomes are kept.
Report ==
    /\ pc = "report"
    /\ IF ReportsNone(res)
       THEN /\ out' = out \o <<"banner", "no_asymptote">>
            /\ pc' = "plot"
            /\ UNCHANGED <<err, errLine>>
       ELSE \E fmt \in {"ok", "ValueError"} :
               IF fmt = "ok"
               THEN /\ out' = out \o <<"banner", "asymptote", "z_height">>
                    /\ pc' = "plot"
                    /\ UNCHANGED <<err, errLine>>
               ELSE /\ out' = out \o <<"banner", "asymptote">>
                    /\ pc' = "raised" /\ err' = "ValueError" /\ errLine' = 226
    /\ UNCHANGED <<rounding, file, argLon, argLat, invoked, lon, lat, nlon,
                   nlat, fopen, opens, idx, bound, data, ext, rad, res>>

\* plot_ext: max([x.n for x in ext]) of an empty profile raises ValueError
PlotExt ==
    /\ pc = "plot"
    /\ IF Len(ext) = 0
       THEN /\ pc' = "raised" /\ err' = "ValueError" /\ errLine' = 176
       ELSE /\ pc' = "done" /\ UNCHANGED <<err, errLine>>
    /\ UNCHANGED <<rounding, file, argLon, argLat, invoked, lon, lat, nlon,
                   nlat, fopen, opens, idx, bound, data, ext, rad, res, out>>

Next ==
    \/ Main
    \/ Normalize
    \/ Open
    \/ Header
    \/ Scan
    \/ FClose
    \/ Return
    \/ Find
    \/ Report
    \/ PlotExt

Spec == Init /\ [][Next]_vars

----------------------------------------------------------------------------
(* Properties *)

\* the visual extinction of point i and the slope of step i, from the
\* arguments of find_asymptotic_red as they stand in the state
VisualN(i) == (ext[i].n * ConvDen) \div ConvNum
StepDefined(i) == rad[i + 1].n # rad[i].n
StepFlat(i) ==
    LET dV == VisualN(i + 1) - VisualN(i)
        dR == rad[i + 1].n - rad[i].n
    IN  /\ dR # 0
        /\ IF dR > 0 THEN dV * ThreshDen <= ThreshNum * PerMag * dR
                     ELSE dV * ThreshDen >= ThreshNum * PerMag * dR
Steps == 1..(IF Len(ext) = 0 THEN 0 ELSE Len(ext) - 1)
AsymCalled == pc \in {"returned", "raised"}

Increasing == \A i \in Steps : rad[i + 1].n > rad[i].n

\* C1: when some step of the profile has a slope <= 0.01, find_asymptotic_red
\* returns the visual extinction and the radius of the point before the first
\* such step (stated for the profiles of increasing radii, where every slope
\* is defined).
C1_ReturnsFirstFlatStep ==
    (AsymCalled /\ Increasing /\ \E i \in Steps : StepFlat(i)) =>
        LET k == CHOOSE i \in Steps :
                    StepFlat(i) /\ \A j \in Steps : StepFlat(j) => i <= j
        IN  /\ pc = "returned"
            /\ res.red = UF(VisualN(k), ext[k].s)
            /\ res.dist = rad[k]

\* C2: a profile of 0 or 1 points, or one whose every slope exceeds 0.01,
\* gives (None, None).
C2_AbsentWhenShortOrSteep ==
    (AsymCalled /\ \A i \in Steps : StepDefined(i) /\ ~StepFlat(i)) =>
        /\ pc = "returned"
        /\ res = [red |-> None, dist |-> None]

C2_Witness ==
    /\ pc = "returned"
    /\ Len(ext) >= 2
    /\ \A i \in Steps : StepDefined(i) /\ ~StepFlat(i)
    /\ res.red.isNone /\ res.dist.isNone

\* the signed longitude of the query and the window of the map
SignedLon == IF lon > HalfTurn * Deg THEN lon - FullTurn * Deg ELSE lon
OutsideWindow == Abs(SignedLon) > MaxAbsLon * Deg \/ Abs(lat) > MaxAbsLat * Deg

MatchingRows ==
    {i \in 2..Len(file) :
        IsNum(file[i].lon) /\ IsNum(file[i].lat) /\ Match(file[i], nlon, nlat)}
Returned ==
    pc \in {"find", "report", "plot", "done"} \/ (pc = "raised" /\ errLine \in {143, 176, 226})

\* C4: when no data row is at the normalised position, q_marshall fails with
\* PositionNotFoundError once the scan is over.
C4_NotFoundIsExplicit ==
    (opens = 1 /\ MatchingRows = {} /\ (Returned \/ (pc = "raised" /\ errLine = 48))) =>
        /\ pc = "raised"
        /\ err = "PositionNotFoundError"

\* C5: q_marshall returns the profile of the first data row at the normalised
\* position.
C5_FirstMatchingRowWins ==
    (Returned /\ MatchingRows # {}) =>
        LET f == CHOOSE i \in MatchingRows : \A j \in MatchingRows : i <= j
            d == split_dat(file[f].data)
        IN  ext = d.ext /\ rad = d.rad

\* the groups of data whose radius field is not blank, in file order
KeptGroups ==
    SelectSeq([g \in 1..(Len(data) \div GroupLen) |-> g],
              LAMBDA g : data[GroupLen * (g - 1) + 1].txt \notin {"blank", "space"})
FieldOf(g, k) == data[GroupLen * (g - 1) + k]
StdOf(f) == IF f.val = 0 THEN 0 ELSE 1

\* C6: of a row of complete groups split_dat keeps one (radius, extinction)
\* entry per group with a non-blank radius, in file order, and no other.
C6_OneEntryPerMeasuredGroup ==
    (pc = "returned" /\ Len(data) % GroupLen = 0) =>
        /\ Len(rad) = Len(KeptGroups) /\ Len(ext) = Len(KeptGroups)
        /\ \A j \in 1..Len(KeptGroups) :
              /\ rad[j] = UF(FieldOf(KeptGroups[j], 1).val, StdOf(FieldOf(KeptGroups[j], 2)))
              /\ ext[j] = UF(FieldOf(KeptGroups[j], 3).val, StdOf(FieldOf(KeptGroups[j], 4)))

C6_Witness ==
    /\ pc = "returned"
    /\ Len(data) = 2 * GroupLen
    /\ IsBlank(data[1]) /\ ~IsBlank(data[GroupLen + 1])
    /\ Len(rad) = 1 /\ Len(ext) = 1

Reported == pc \in {"plot", "done"} \/ (pc = "raised" /\ errLine \in {176, 226})
Printed(tag) == \E i \in DOMAIN out : out[i] = tag

\* C8: get_ext reports a result that is present, with its z-height, and says
\* that there is none only when find_asymptotic_red returned none.
C8_PresentResultIsReported ==
    Reported =>
        IF res.red.isNone /\ res.dist.isNone
        THEN Printed("no_asymptote")
        ELSE Printed("asymptote") /\ Printed("z_height") /\ ~Printed("no_asymptote")

\* C9: the file is opened at most once, is closed when q_marshall is left, by
\* a return or by an exception, and is closed while find_asymptotic_red runs.
C9_FileClosedOnLeaving ==
    /\ opens <= 1
    /\ pc \in {"return", "find", "report", "plot", "done", "raised", "quit"} => ~fopen

C9_Witness ==
    /\ pc = "raised" /\ err = "ValueError" /\ errLine = 111
    /\ opens = 1 /\ ~fopen

\* C10: main calls get_ext exactly when both flags were given, with their
\* values, 0 included.
C10_CoreInvokedIffBothFlags ==
    (pc # "main" /\ (pc = "quit" \/ argLon.set \/ argLat.set)) =>
        /\ invoked <=> (argLon.set /\ argLat.set)
        /\ invoked => (lon = argLon.v /\ lat = argLat.v)

====
